---- MODULE Spec2Model ----
(***************************************************************************)
(* Model of src/src/train.py: the hyperparameter sweep (main, train_model) *)
(* that keeps the best model seen in three module globals, and             *)
(* save_best_model, which pickles that model under models/ and registers   *)
(* it as an artifact on the run that produced it.                          *)
(*                                                                         *)
(* Python's None is the empty sequence <<>> and a present value v is the   *)
(* one-element sequence <<v>>.  A metric is an integer number of           *)
(* thousandths (0.667 is 667).  The wall clock counts ticks of             *)
(* 1/TicksPerSec of a second.                                              *)
(***************************************************************************)
EXTENDS Integers, Sequences, FiniteSets, TLC

\* ---- bounds of the model ------------------------------------------------
MaxRows == 1
MaxTime == 2

\* ---- program constants ---------------------------------------------------
count == 2

\* Clock ticks per second: strftime("%Y%m%d_%H%M%S") keeps whole seconds.
TicksPerSec == 2

\* Values of the held-out targets and of the predictions the sweep can see.
Actuals == {0, 100}
Preds == {95, 120}

VARIABLES
    pc,                      \* position of the single control thread
    procs,                   \* number of times the program has been launched
    iter,                    \* iterations wandb.agent has started in this launch
    exceptions,              \* iterations of this launch that raised
    error,                   \* None, or the exception that is propagating / ended the process
    y_test,                  \* held-out targets (the same files are read by every iteration)
    model, w10, run,         \* train_model locals; run is also wandb's current run
    best_model_performance, best_model, best_run_id,
    model_path,              \* save_best_model local
    now,                     \* wall clock, in ticks
    files,                   \* the models/ directory
    tracked,                 \* runs held by the tracking backend; a run's id is its index
    opened,                  \* history: every file save_best_model opened for writing
    persistCalls             \* history: calls of save_best_model in this launch

vars == <<pc, procs, iter, exceptions, error, y_test, model, w10, run,
          best_model_performance, best_model, best_run_id, model_path,
          now, files, tracked, opened, persistCalls>>

None == <<>>
Some(v) == <<v>>
Val(o) == o[1]

Abs(x) == IF x < 0 THEN -x ELSE x

RECURSIVE SeqsOfLen(_, _)
SeqsOfLen(S, n) ==
    IF n = 0 THEN {<<>>}
    ELSE {Append(s, x) : s \in SeqsOfLen(S, n - 1), x \in S}

\* Non-empty test splits: train_test_split never returns an empty test set.
TestSets == UNION {SeqsOfLen(Actuals, n) : n \in 1..MaxRows}

\* ---- within_10 -----------------------------------------------------------

\* err < 0.1 for one row, err = |pred / actual - 1|.  With actual = 0 the
\* quotient is inf (or nan for 0/0) and the comparison is False.
RowWithin10(pred, actual) ==
    /\ actual # 0
    /\ Abs(pred - actual) * 10 < Abs(actual)

RECURSIVE CountWithin(_, _)
CountWithin(preds, ys) ==
    IF preds = <<>> THEN 0
    ELSE (IF RowWithin10(Head(preds), Head(ys)) THEN 1 ELSE 0)
         + CountWithin(Tail(preds), Tail(ys))

\* (k / n).round(3) in thousandths; numpy rounds halves to even.
Round3(k, n) ==
    LET q == (1000 * k) \div n
        r == (1000 * k) % n
    IN  IF 2 * r < n THEN q
        ELSE IF 2 * r > n THEN q + 1
        ELSE IF q % 2 = 0 THEN q ELSE q + 1

within_10(m, ys) == Round3(CountWithin(m.preds, ys), Len(ys))

\* ---- helpers on the environment ------------------------------------------

\* Mutant: the file name leaves the timestamp out.
ModelFilenameNoDate(perf, timestamp) == [w10 |-> perf, date |-> 0]

\* f"best_model_w10_{best_model_performance}_date_{timestamp}.pkl"
ModelFilename(perf, timestamp) == [w10 |-> perf, date |-> timestamp]

\* datetime.now().strftime("%Y%m%d_%H%M%S")
Timestamp(t) == t \div TicksPerSec

\* open(path, "wb") creates the file or truncates the one already there.
Truncate(fs, path) ==
    {f \in fs : f.name # path} \cup {[name |-> path, content |-> None]}

WriteFile(fs, path, obj) ==
    {f \in fs : f.name # path} \cup {[name |-> path, content |-> Some(obj)]}

SetRun(r, field, v) == [tracked EXCEPT ![r] = [@ EXCEPT ![field] = v]]

\* ---- initial state (lines 28-30 and a fresh environment) -----------------
Init ==
    /\ pc = "NotStarted"
    /\ procs = 1
    /\ iter = 0
    /\ exceptions = 0
    /\ error = None
    /\ y_test \in TestSets
    /\ model = None
    /\ w10 = None
    /\ run = None
    /\ best_model_performance = None
    /\ best_model = None
    /\ best_run_id = None
    /\ model_path = None
    /\ now = 0
    /\ files = {}
    /\ tracked = <<>>
    /\ opened = <<>>
    /\ persistCalls = 0

\* ---- main ----------------------------------------------------------------

\* Lines 46-54: logging set up, the sweep configuration read, the sweep created.
Main ==
    /\ pc = "NotStarted"
    /\ pc' = "agent"
    /\ UNCHANGED <<procs, iter, exceptions, error, y_test, model, w10, run,
                   best_model_performance, best_model, best_run_id, model_path,
                   now, files, tracked, opened, persistCalls>>

\* Line 55, wandb.agent(..., function=train_model, count=2): start the next call.
AgentNext ==
    /\ pc = "agent"
    /\ iter < count
    /\ iter' = iter + 1
    /\ pc' = "init"
    /\ UNCHANGED <<procs, exceptions, error, y_test, model, w10, run,
                   best_model_performance, best_model, best_run_id, model_path,
                   now, files, tracked, opened, persistCalls>>

\* Mutant: the agent returns after its first call.
AgentDoneEarly ==
    /\ pc = "agent"
    /\ iter >= 1
    /\ pc' = "check"
    /\ UNCHANGED <<procs, iter, exceptions, error, y_test, model, w10, run,
                   best_model_performance, best_model, best_run_id, model_path,
                   now, files, tracked, opened, persistCalls>>

\* Line 55: the agent has made its count calls and returns.
AgentDone ==
    /\ pc = "agent"
    /\ iter = count
    /\ pc' = "check"
    /\ UNCHANGED <<procs, iter, exceptions, error, y_test, model, w10, run,
                   best_model_performance, best_model, best_run_id, model_path,
                   now, files, tracked, opened, persistCalls>>

\* ---- train_model ---------------------------------------------------------

\* Mutant: the run id is stored as soon as the run exists.
TrainInitEager ==
    /\ pc = "init"
    /\ tracked' = Append(tracked, [proc |-> procs, iter |-> iter, state |-> "running",
                                   logs |-> <<>>, artifacts |-> <<>>])
    /\ run' = Some(Len(tracked) + 1)
    /\ best_run_id' = Some(Len(tracked) + 1)
    /\ model' = None
    /\ w10' = None
    /\ pc' = "fit"
    /\ UNCHANGED <<procs, iter, exceptions, error, y_test,
                   best_model_performance, best_model, model_path,
                   now, files, opened, persistCalls>>

\* Lines 64-86: a new tracked run; the data is loaded, cleaned and split.
TrainInit ==
    /\ pc = "init"
    /\ tracked' = Append(tracked, [proc |-> procs, iter |-> iter, state |-> "running",
                                   logs |-> <<>>, artifacts |-> <<>>])
    /\ run' = Some(Len(tracked) + 1)
    /\ model' = None
    /\ w10' = None
    /\ pc' = "fit"
    /\ UNCHANGED <<procs, iter, exceptions, error, y_test,
                   best_model_performance, best_model, best_run_id, model_path,
                   now, files, opened, persistCalls>>

\* Lines 89-103: the sampled configuration is fitted.  The fitted model is
\* known to the rest of the program by its predictions on the test split.
Fit ==
    /\ pc = "fit"
    /\ \E p \in SeqsOfLen(Preds, Len(y_test)) :
           model' = Some([iter |-> iter, preds |-> p])
    /\ pc' = "score"
    /\ UNCHANGED <<procs, iter, exceptions, error, y_test, w10, run,
                   best_model_performance, best_model, best_run_id, model_path,
                   now, files, tracked, opened, persistCalls>>

\* Line 103: model.fit raises; train_model has no handler, so the exception
\* leaves it.
FitRaises ==
    /\ pc = "fit"
    /\ error' = Some([kind |-> "TrainingError", at |-> "fit"])
    /\ exceptions' = exceptions + 1
    /\ pc' = "raised"
    /\ UNCHANGED <<procs, iter, y_test, model, w10, run,
                   best_model_performance, best_model, best_run_id, model_path,
                   now, files, tracked, opened, persistCalls>>

\* Line 106.
Score ==
    /\ pc = "score"
    /\ w10' = Some(within_10(Val(model), y_test))
    /\ pc' = "log"
    /\ UNCHANGED <<procs, iter, exceptions, error, y_test, model, run,
                   best_model_performance, best_model, best_run_id, model_path,
                   now, files, tracked, opened, persistCalls>>

\* Lines 108-116: run.log of the four hyperparameters and the metric.  The
\* hyperparameters are passed through from wandb.config and not modelled.
Log ==
    /\ pc = "log"
    /\ tracked' = SetRun(Val(run), "logs",
                         Append(tracked[Val(run)].logs, [within_10 |-> Val(w10)]))
    /\ pc' = "compare"
    /\ UNCHANGED <<procs, iter, exceptions, error, y_test, model, w10, run,
                   best_model_performance, best_model, best_run_id, model_path,
                   now, files, opened, persistCalls>>

\* Mutant: the comparison points the wrong way.
ImprovesLess(m, best) == best = None \/ m < Val(best)

\* Mutant: a tie replaces the stored model.
ImprovesOrTies(m, best) == best = None \/ m >= Val(best)

\* Line 118.
Improves(m, best) == best = None \/ m > Val(best)

\* Mutant: the run id is not stored with the model.
CompareNoRunId ==
    /\ pc = "compare"
    /\ IF Improves(Val(w10), best_model_performance)
       THEN /\ best_model_performance' = w10
            /\ best_model' = model
            /\ UNCHANGED best_run_id
       ELSE UNCHANGED <<best_model_performance, best_model, best_run_id>>
    /\ pc' = "finish"
    /\ UNCHANGED <<procs, iter, exceptions, error, y_test, model, w10, run,
                   model_path, now, files, tracked, opened, persistCalls>>

\* Lines 118-121.
Compare ==
    /\ pc = "compare"
    /\ IF Improves(Val(w10), best_model_performance)
       THEN /\ best_model_performance' = w10
            /\ best_model' = model
            /\ best_run_id' = run
       ELSE UNCHANGED <<best_model_performance, best_model, best_run_id>>
    /\ pc' = "finish"
    /\ UNCHANGED <<procs, iter, exceptions, error, y_test, model, w10, run,
                   model_path, now, files, tracked, opened, persistCalls>>

\* Line 123, and the return to the agent.
Finish ==
    /\ pc = "finish"
    /\ tracked' = SetRun(Val(run), "state", "finished")
    /\ run' = None
    /\ model' = None
    /\ w10' = None
    /\ pc' = "agent"
    /\ UNCHANGED <<procs, iter, exceptions, error, y_test,
                   best_model_performance, best_model, best_run_id, model_path,
                   now, files, opened, persistCalls>>

\* ---- an exception leaving train_model (line 55) --------------------------
\* What wandb.agent does with it is decided outside this repository: it may
\* record the run as failed and go on to the next call, record it and return
\* to main, or let the exception end the process.

RunFailed ==
    /\ tracked' = SetRun(Val(run), "state", "failed")
    /\ run' = None
    /\ model' = None
    /\ w10' = None

AgentContinue ==
    /\ pc = "raised"
    /\ RunFailed
    /\ error' = None
    /\ pc' = "agent"
    /\ UNCHANGED <<procs, iter, exceptions, y_test,
                   best_model_performance, best_model, best_run_id, model_path,
                   now, files, opened, persistCalls>>

AgentExit ==
    /\ pc = "raised"
    /\ RunFailed
    /\ error' = None
    /\ pc' = "check"
    /\ UNCHANGED <<procs, iter, exceptions, y_test,
                   best_model_performance, best_model, best_run_id, model_path,
                   now, files, opened, persistCalls>>

Propagate ==
    /\ pc = "raised"
    /\ RunFailed
    /\ pc' = "crashed"
    /\ UNCHANGED <<procs, iter, exceptions, error, y_test,
                   best_model_performance, best_model, best_run_id, model_path,
                   now, files, opened, persistCalls>>

\* ---- main, after the sweep -----------------------------------------------

\* Mutant: save_best_model is called whatever the sweep left.
ShouldSaveAlways == TRUE

\* Line 57.
ShouldSave == best_model # None

\* Lines 57-58.
CheckBest ==
    /\ pc = "check"
    /\ IF ShouldSave
       THEN /\ pc' = "save"
            /\ persistCalls' = persistCalls + 1
       ELSE /\ pc' = "exited"
            /\ UNCHANGED persistCalls
    /\ UNCHANGED <<procs, iter, exceptions, error, y_test, model, w10, run,
                   best_model_performance, best_model, best_run_id, model_path,
                   now, files, tracked, opened>>

\* ---- save_best_model -----------------------------------------------------

\* Time passes.  The clock is read at line 129 only, so only the passing of
\* time before that read is modelled.
Tick ==
    /\ pc = "save"
    /\ now < MaxTime
    /\ now' = now + 1
    /\ UNCHANGED <<pc, procs, iter, exceptions, error, y_test, model, w10, run,
                   best_model_performance, best_model, best_run_id, model_path,
                   files, tracked, opened, persistCalls>>

\* Lines 129-131.
ModelPath == ModelFilename(Val(best_model_performance), Timestamp(now))

\* Lines 129-133: the path is built and the file opened for writing.
SaveOpen ==
    /\ pc = "save"
    /\ model_path' = Some(ModelPath)
    /\ files' = Truncate(files, ModelPath)
    /\ opened' = Append(opened, [proc |-> procs, name |-> ModelPath,
                                 w10 |-> Val(best_model_performance), at |-> now])
    /\ pc' = "dump"
    /\ UNCHANGED <<procs, iter, exceptions, error, y_test, model, w10, run,
                   best_model_performance, best_model, best_run_id,
                   now, tracked, persistCalls>>

\* Mutant: nothing is written to the opened file.
DumpedNothing(fs, path, obj) == fs

\* What pickle.dump leaves in the file.
Dumped(fs, path, obj) == WriteFile(fs, path, obj)

\* Line 134.
SaveDump ==
    /\ pc = "dump"
    /\ files' = Dumped(files, Val(model_path), Val(best_model))
    /\ pc' = "resume"
    /\ UNCHANGED <<procs, iter, exceptions, error, y_test, model, w10, run,
                   best_model_performance, best_model, best_run_id, model_path,
                   now, tracked, opened, persistCalls>>

\* Mutant: the run resumed is the latest one, not the stored one.
LastRun(id) == Len(tracked)

\* The run wandb.init(project=PROJECT_NAME, id=best_run_id, resume="must") returns.
ResumedRun(id) == id

\* Line 136.
SaveResume ==
    /\ pc = "resume"
    /\ run' = Some(ResumedRun(Val(best_run_id)))
    /\ tracked' = SetRun(ResumedRun(Val(best_run_id)), "state", "running")
    /\ pc' = "log_artifact"
    /\ UNCHANGED <<procs, iter, exceptions, error, y_test, model, w10,
                   best_model_performance, best_model, best_run_id, model_path,
                   now, files, opened, persistCalls>>

\* Lines 138-143.
Artifact ==
    [name |-> Val(best_run_id), type |-> "model",
     metadata |-> [w10 |-> Val(best_model_performance), model_type |-> "rf",
                   format |-> "pickle"],
     file |-> Val(model_path), aliases |-> {"best_model"}]

\* Lines 138-146: the artifact is logged to wandb's current run.
SaveLogArtifact ==
    /\ pc = "log_artifact"
    /\ tracked' = SetRun(Val(run), "artifacts",
                         Append(tracked[Val(run)].artifacts, Artifact))
    /\ pc' = "exited"
    /\ UNCHANGED <<procs, iter, exceptions, error, y_test, model, w10, run,
                   best_model_performance, best_model, best_run_id, model_path,
                   now, files, opened, persistCalls>>

\* Lines 129-145: open, pickle.dump, wandb.init or wandb.log_artifact raises.
\* save_best_model and main have no handler: the process ends.  A file that
\* open created stays as it is.
SaveRaises ==
    /\ pc \in {"save", "dump", "resume", "log_artifact"}
    /\ error' = Some([kind |-> "PersistenceError", at |-> pc])
    /\ model_path' = IF pc = "save" THEN Some(ModelPath) ELSE model_path
    /\ pc' = "crashed"
    /\ UNCHANGED <<procs, iter, exceptions, y_test, model, w10, run,
                   best_model_performance, best_model, best_run_id,
                   now, files, tracked, opened, persistCalls>>

\* ---- the program is run again --------------------------------------------
\* A second process: the module globals are None again (lines 28-30); the
\* models/ directory, the tracking backend and the clock are what they were.
\* Two launches are modelled, the pair a statement about repeated runs needs.
Relaunch ==
    /\ pc \in {"exited", "crashed"}
    /\ procs = 1
    /\ procs' = procs + 1
    /\ pc' = "NotStarted"
    /\ iter' = 0
    /\ exceptions' = 0
    /\ error' = None
    /\ model' = None
    /\ w10' = None
    /\ run' = None
    /\ best_model_performance' = None
    /\ best_model' = None
    /\ best_run_id' = None
    /\ model_path' = None
    /\ persistCalls' = 0
    /\ UNCHANGED <<y_test, now, files, tracked, opened>>

Next ==
    \/ Main
    \/ AgentNext
    \/ AgentDone
    \/ TrainInit
    \/ Fit
    \/ FitRaises
    \/ Score
    \/ Log
    \/ Compare
    \/ Finish
    \/ AgentContinue
    \/ AgentExit
    \/ Propagate
    \/ CheckBest
    \/ Tick
    \/ SaveOpen
    \/ SaveDump
    \/ SaveResume
    \/ SaveLogArtifact
    \/ SaveRaises
    \/ Relaunch

Spec == Init /\ [][Next]_vars

\* ---- vocabulary of the properties ----------------------------------------

\* Tracked runs of the current launch.
MyRuns == {r \in 1..Len(tracked) : tracked[r].proc = procs}

\* Runs of the current launch whose metric has been through lines 118-121.
Compared ==
    {r \in MyRuns : tracked[r].logs # <<>> /\ ~(pc = "compare" /\ run = Some(r))}

MetricOf(r) == tracked[r].logs[1].within_10

MaxMetric == CHOOSE m \in {MetricOf(r) : r \in Compared} :
                 \A r \in Compared : MetricOf(r) <= m

\* The lowest-index iteration that achieved the maximum.
FirstBest == CHOOSE r \in Compared :
                 /\ MetricOf(r) = MaxMetric
                 /\ \A q \in Compared : MetricOf(q) = MaxMetric => r <= q

\* The iteration of run r raised.
RaisedIn(r) == tracked[r].state = "failed" \/ (pc = "raised" /\ run = Some(r))

SavePcs == {"save", "dump", "resume", "log_artifact"}

PersistFailed ==
    /\ pc = "crashed"
    /\ error # None
    /\ Val(error).kind = "PersistenceError"

\* wandb.agent has returned to main.
AgentReturned == pc \in SavePcs \cup {"check", "exited"} \/ PersistFailed

MyOpened == {k \in 1..Len(opened) : opened[k].proc = procs}

ZeroActual == \E k \in 1..Len(y_test) : y_test[k] = 0

\* ---- C1 ------------------------------------------------------------------
\* C1: once iterations 1..n of a sweep have each produced a metric and been
\* compared, the metric held in the best-model state is the largest of those
\* metrics, in whatever order they came.
C1_BestIsMax ==
    Compared # {} =>
        /\ best_model_performance # None
        /\ Val(best_model_performance) = MaxMetric

\* Both iterations produced a metric and the larger one came first.
C1_Witness ==
    /\ pc = "check"
    /\ Cardinality(Compared) = count
    /\ \E r, q \in Compared : r < q /\ MetricOf(r) > MetricOf(q)
    /\ Val(best_model_performance) = MaxMetric

\* ---- C2 ------------------------------------------------------------------
\* C2: the best-model state is replaced on strict improvement only, so the
\* stored model and run identifier are those of the first iteration that
\* achieved the maximum metric; a later iteration with an equal metric leaves
\* them as they are.
C2_FirstBestWins ==
    Compared # {} =>
        /\ best_run_id = Some(FirstBest)
        /\ best_model # None
        /\ Val(best_model).iter = tracked[FirstBest].iter

\* Two iterations tied on the maximum, and the first one is the one stored.
C2_Witness ==
    /\ pc = "check"
    /\ \E r, q \in Compared :
           /\ r < q
           /\ MetricOf(r) = MetricOf(q)
           /\ MetricOf(r) > 0
           /\ best_run_id = Some(r)

\* ---- C3 ------------------------------------------------------------------
\* C3: save_best_model is invoked only after wandb.agent has returned, at
\* most once, and only with a non-empty best-model state; when no iteration of
\* the sweep produced a metric it is never invoked and writes nothing.
C3_PersistOnlyAfterSweep ==
    /\ (persistCalls > 0 \/ pc \in SavePcs) =>
           /\ persistCalls = 1
           /\ AgentReturned
           /\ iter = count \/ exceptions > 0
           /\ \A r \in MyRuns : tracked[r].state = "running" =>
                  pc \notin {"save", "dump", "resume"} /\ best_run_id = Some(r)
           /\ best_model # None
           /\ best_model_performance # None
           /\ best_run_id # None
           /\ Compared # {}
    /\ Compared = {} => persistCalls = 0 /\ MyOpened = {}

\* A launch in which every iteration failed has ended without persisting,
\* after an earlier launch that did persist.
C3_Witness ==
    /\ pc = "exited"
    /\ exceptions = count
    /\ persistCalls = 0
    /\ opened # <<>>

\* ---- C4 ------------------------------------------------------------------
\* C4 as stated: no two writes of save_best_model, from whatever launches,
\* target the same file name.
C4_NeverSameFile ==
    \A a, b \in 1..Len(opened) : a < b => opened[a].name # opened[b].name

\* C4: two writes of save_best_model target the same file name exactly when
\* they carry the same best metric and fall within the same clock second; the
\* second write then replaces the file of the first.
C4_SameFileIffSameMetricAndSecond ==
    /\ \A a, b \in 1..Len(opened) :
           a < b =>
               (opened[a].name = opened[b].name
                    <=> /\ opened[a].w10 = opened[b].w10
                        /\ opened[a].at \div TicksPerSec = opened[b].at \div TicksPerSec)
    /\ \A f, g \in files : f.name = g.name => f = g
    /\ \A f \in files : \E k \in 1..Len(opened) : opened[k].name = f.name

\* The second launch has opened the very file the first launch wrote, at a
\* later instant of the same second, and only one file is in the directory.
C4_Witness ==
    /\ Len(opened) = 2
    /\ opened[1].name = opened[2].name
    /\ opened[1].at < opened[2].at
    /\ Cardinality(files) = 1

\* ---- C5 ------------------------------------------------------------------
\* C5 as stated: after save_best_model has failed, no model file of that call
\* is in the models directory and no artifact is registered.
C5_FailureLeavesNothing ==
    PersistFailed =>
        /\ \A f \in files : f.name # Val(model_path)
        /\ \A r \in MyRuns : tracked[r].artifacts = <<>>

\* C5: a failure of save_best_model ends the process without a retry and
\* without a registered artifact, but the file is not removed: once open has
\* succeeded the file stays, without a complete model if pickle.dump failed
\* and with the pickled best model if the tracking backend failed.
C5_FailureLeavesFile ==
    PersistFailed =>
        /\ persistCalls = 1
        /\ Cardinality(MyOpened) <= 1
        /\ \A r \in MyRuns : tracked[r].artifacts = <<>>
        /\ Val(error).at # "save" =>
               \E f \in files :
                   /\ f.name = Val(model_path)
                   /\ Val(error).at = "dump" => f.content = None
                   /\ Val(error).at \in {"resume", "log_artifact"} =>
                          f.content = best_model

\* The tracking backend could not be reached on resume: the pickled model
\* is in the directory and nothing is registered.
C5_Witness ==
    /\ PersistFailed
    /\ Val(error).at = "resume"
    /\ \E f \in files : f.name = Val(model_path) /\ f.content = best_model
    /\ \A r \in MyRuns : tracked[r].artifacts = <<>>

\* ---- C6 ------------------------------------------------------------------
\* C6: when the test split holds a row whose actual price is 0, scoring yields
\* no metric: none is logged and none reaches the best-model state.
C6_ZeroActualYieldsNoMetric ==
    ZeroActual =>
        /\ w10 = None
        /\ \A r \in MyRuns : tracked[r].logs = <<>>
        /\ best_model_performance = None

C8_ExactlyCountSequentialRuns ==
    exceptions = 0 =>
        /\ Cardinality(MyRuns) = IF pc = "init" THEN iter - 1 ELSE iter
        /\ iter <= count
        /\ pc = "NotStarted" => iter = 0
        /\ Cardinality({r \in MyRuns : tracked[r].state = "running"}) <= 1
        /\ \A r \in MyRuns : Len(tracked[r].logs) <= 1
        /\ \A r \in MyRuns : run # Some(r) => Len(tracked[r].logs) = 1
        /\ pc \in {"compare", "finish"} => Len(tracked[Val(run)].logs) = 1
        /\ pc \in {"init", "fit", "score", "log", "compare", "finish"} =>
               \A r \in MyRuns : run # Some(r) => tracked[r].state = "finished"
        /\ AgentReturned =>
               /\ iter = count
               /\ Cardinality(MyRuns) = count
               /\ \A r \in MyRuns : Len(tracked[r].logs) = 1
               /\ \A r \in MyRuns :
                      tracked[r].state = "finished" \/ best_run_id = Some(r)

\* The agent has returned from an error-free sweep of count tracked runs.
C8_Witness ==
    /\ pc = "check"
    /\ exceptions = 0
    /\ Cardinality(MyRuns) = count
    /\ \A r \in MyRuns : Len(tracked[r].logs) = 1 /\ tracked[r].state = "finished"

\* ---- C9 ------------------------------------------------------------------
\* C9: after an error-free sweep and an error-free save_best_model, the
\* launch has called save_best_model once and opened one file, whose name
\* embeds the maximum metric and which holds the stored best model; the run
\* of the iteration that produced that model carries the one artifact, with
\* alias best_model and the metric in its metadata, and the launch still has
\* count tracked runs.
C9_OneArtifactOnBestRun ==
    /\ (exceptions = 0 /\ AgentReturned /\ pc # "check") => persistCalls = 1
    /\ (pc = "exited" /\ exceptions = 0) =>
        /\ persistCalls = 1
        /\ Cardinality(MyOpened) = 1
        /\ \A k \in MyOpened :
               /\ opened[k].name = Val(model_path)
               /\ opened[k].name.w10 = MaxMetric
        /\ [name |-> Val(model_path), content |-> best_model] \in files
        /\ Cardinality(MyRuns) = count
        /\ Val(best_run_id) \in MyRuns
        /\ tracked[Val(best_run_id)].iter = Val(best_model).iter
        /\ MetricOf(Val(best_run_id)) = MaxMetric
        /\ \A r \in MyRuns :
               IF best_run_id = Some(r)
               THEN /\ Len(tracked[r].artifacts) = 1
                    /\ tracked[r].artifacts[1].name = r
                    /\ tracked[r].artifacts[1].aliases = {"best_model"}
                    /\ tracked[r].artifacts[1].metadata.w10 = MaxMetric
                    /\ tracked[r].artifacts[1].file = Val(model_path)
               ELSE tracked[r].artifacts = <<>>

\* The best model came from the first iteration, not the latest run, and its
\* run carries the artifact.
C9_Witness ==
    /\ pc = "exited"
    /\ exceptions = 0
    /\ persistCalls = 1
    /\ \E r, q \in MyRuns :
           /\ r < q
           /\ best_run_id = Some(r)
           /\ Len(tracked[r].artifacts) = 1
           /\ tracked[q].artifacts = <<>>

\* ---- C10 -----------------------------------------------------------------
BestModelState == <<best_model_performance, best_model, best_run_id>>

C10_Inv ==
    /\ \/ BestModelState = <<None, None, None>>
       \/ best_model_performance # None /\ best_model # None /\ best_run_id # None
    /\ best_model = None <=> Compared = {}
    /\ best_model # None =>
           /\ Val(best_run_id) \in Compared
           /\ tracked[Val(best_run_id)].iter = Val(best_model).iter
           /\ MetricOf(Val(best_run_id)) = Val(best_model_performance)
           /\ within_10(Val(best_model), y_test) = Val(best_model_performance)
    /\ pc = "resume" => tracked[Val(best_run_id)].state = "finished"

\* C10: the three fields of the best-model state are all unset, exactly when
\* no iteration of the launch has been through the comparison, or all set and
\* produced by one iteration; the state changes only in the comparison step,
\* which an iteration takes once; and the stored run is finished when
\* save_best_model is about to resume it.
C10_BestModelStateConsistent ==
    /\ []C10_Inv
    /\ [][BestModelState' # BestModelState =>
              \/ pc = "compare" /\ pc' = "finish"
              \/ pc' = "NotStarted"]_vars

\* save_best_model is about to resume the stored run, which is finished.
C10_Witness ==
    /\ pc = "resume"
    /\ best_model # None
    /\ tracked[Val(best_run_id)].state = "finished"
    /\ Cardinality(Compared) = count

====
